---- MODULE Spec2Model ----
(***************************************************************************)
(* Model of BudgetVarianceAnalyzer                                         *)
(* (financial_analytics_showcase/cost_analytics/budget_variance_analyzer.py) *)
(*                                                                         *)
(* Money amounts are whole currency units (the percentages depend on the   *)
(* ratio of the amounts only).  A percentage column is a float: either a   *)
(* finite value, kept as an integer number of hundredths of a percent      *)
(* (the column is rounded to 2 decimals), or +inf, -inf or NaN, which is   *)
(* what a float division by zero yields in a pandas column.                *)
(***************************************************************************)
EXTENDS Integers, Sequences, FiniteSets, TLC

VARIABLES
    variance_thresholds, \* self.variance_thresholds of the analyzer
    ctor_args,           \* arguments of the last constructor call
    df,                  \* the caller's DataFrame
    df_before,           \* the DataFrame as it was when the last call began
    ret,                 \* value returned by the last calculate_variances
    error,               \* exception raised by the last call, or "none"
    op,                  \* the last operation
    x,                   \* argument of the last categorize_variance call
    category,            \* its result
    prev_x,              \* argument of the call before that
    prev_category        \* and its result

vars == <<variance_thresholds, ctor_args, df, df_before, ret, error, op,
          x, category, prev_x, prev_category>>

-----------------------------------------------------------------------------
(* Bounds *)

\* longest DataFrame handed to calculate_variances
MaxRows == 2
\* thresholds of the pure-function check range over -MaxThreshold..MaxThreshold
MaxThreshold == 3

-----------------------------------------------------------------------------
(* Floats *)

Fin(n) == [kind |-> "fin", val |-> n]
PosInf == [kind |-> "inf", val |-> 1]
NegInf == [kind |-> "inf", val |-> -1]
NaN    == [kind |-> "nan", val |-> 0]

IsFinite(v) == v.kind = "fin"

\* v <= t and v >= t for a float v (hundredths of a percent when finite) and
\* a threshold t in whole percent; every comparison with NaN is false
FloatLe(v, t) == \/ IsFinite(v) /\ v.val <= t * 100
                 \/ v = NegInf
FloatGe(v, t) == \/ IsFinite(v) /\ v.val >= t * 100
                 \/ v = PosInf

\* n / d cut down to an integer instead of rounded
Truncate(n, d) == n \div d

\* n / d rounded to the nearest integer, ties to the even neighbour (numpy
\* rounding), for d > 0
RoundHalfEven(n, d) ==
    LET q == n \div d
        r == n % d
    IN  IF 2 * r < d THEN q
        ELSE IF 2 * r > d THEN q + 1
        ELSE IF q % 2 = 0 THEN q ELSE q + 1

\* (num / den * 100).round(2) on float columns, for den >= 0: the result in
\* hundredths of a percent; a zero denominator raises nothing and yields
\* inf, -inf or NaN
PctRounded(num, den) ==
    IF den = 0
    THEN IF num > 0 THEN PosInf ELSE IF num < 0 THEN NegInf ELSE NaN
    ELSE Fin(RoundHalfEven(num * 10000, den))

-----------------------------------------------------------------------------
(* __init__ *)

\* the two overrun thresholds transposed
TransposedThresholds ==
    [significantly_over  |-> -5,
     significantly_under |-> 25,
     slightly_over       |-> -10,
     slightly_under      |-> 15]

DefaultThresholds ==
    [significantly_over  |-> -10,
     significantly_under |-> 25,
     slightly_over       |-> -5,
     slightly_under      |-> 15]

\* the positional arguments of a constructor call, self aside
NoArgs == <<>>

StrictlyOrdered(t) ==
    /\ t.significantly_over < t.slightly_over
    /\ t.slightly_over < t.slightly_under
    /\ t.slightly_under < t.significantly_under

\* threshold dictionaries a caller may try to hand to the constructor
ThresholdArgs ==
    { [significantly_over |-> -10, significantly_under |-> 25,
       slightly_over |-> -5, slightly_under |-> 15],
      [significantly_over |-> -5, significantly_under |-> 25,
       slightly_over |-> -10, slightly_under |-> 15],
      [significantly_over |-> -10, significantly_under |-> 15,
       slightly_over |-> -5, slightly_under |-> 25],
      [significantly_over |-> 10, significantly_under |-> -25,
       slightly_over |-> 5, slightly_under |-> -15] }

-----------------------------------------------------------------------------
(* generate_sample_data: the monthly budgets, in whole currency units *)

base_budgets ==
    [AIR_QUALITY    |-> 37500,
     WATER_TESTING  |-> 26667,
     WASTE_MGMT     |-> 23333,
     SUSTAINABILITY |-> 18333,
     COMPLIANCE     |-> 31667]

-----------------------------------------------------------------------------
(* calculate_variances *)

\* the mild tests tried before the severe ones
categorize_variance_mild_first(variance_pct, thresholds) ==
    IF FloatLe(variance_pct, thresholds.slightly_over)
    THEN "Slighty Overrun"
    ELSE IF FloatLe(variance_pct, thresholds.significantly_over)
    THEN "Significantly Overrun"
    ELSE IF FloatGe(variance_pct, thresholds.slightly_under)
    THEN "Slightly Underspending"
    ELSE IF FloatGe(variance_pct, thresholds.significantly_under)
    THEN "Significantly Underspending"
    ELSE "Within Target"

\* the underspending tests strict, leaving their thresholds to the milder side
categorize_variance_strict_under(variance_pct, thresholds) ==
    IF FloatLe(variance_pct, thresholds.significantly_over)
    THEN "Significantly Overrun"
    ELSE IF FloatLe(variance_pct, thresholds.slightly_over)
    THEN "Slighty Overrun"
    ELSE IF /\ FloatGe(variance_pct, thresholds.significantly_under)
            /\ variance_pct # Fin(100 * thresholds.significantly_under)
    THEN "Significantly Underspending"
    ELSE IF /\ FloatGe(variance_pct, thresholds.slightly_under)
            /\ variance_pct # Fin(100 * thresholds.slightly_under)
    THEN "Slightly Underspending"
    ELSE "Within Target"

categorize_variance(variance_pct, thresholds) ==
    IF FloatLe(variance_pct, thresholds.significantly_over)
    THEN "Significantly Overrun"
    ELSE IF FloatLe(variance_pct, thresholds.slightly_over)
    THEN "Slighty Overrun"
    ELSE IF FloatGe(variance_pct, thresholds.significantly_under)
    THEN "Significantly Underspending"
    ELSE IF FloatGe(variance_pct, thresholds.slightly_under)
    THEN "Slightly Underspending"
    ELSE "Within Target"

\* A DataFrame is a record of columns, each a sequence with one entry per row.

\* df[name] = col: the column is added, or replaced when it exists
SetColumn(d, name, col) == (name :> col) @@ d

NRows(d) == Len(d.monthly_budget)

\* row i of the frame, as the record of its cells
Row(d, i) == [c \in DOMAIN d |-> d[c][i]]

\* pd.DataFrame(data) for a list of row dictionaries
DataFrame(data) ==
    [monthly_budget  |-> [i \in DOMAIN data |-> data[i].monthly_budget],
     actual_spending |-> [i \in DOMAIN data |-> data[i].actual_spending]]

\* df['actual_spending'] - df['monthly_budget']
budget_variance_column(d) ==
    [i \in 1..NRows(d) |-> d.actual_spending[i] - d.monthly_budget[i]]

\* (df['budget_variance'] / df['monthly_budget'] * 100).round(2)
variance_pct_column(d) ==
    [i \in 1..NRows(d) |-> PctRounded(d.budget_variance[i], d.monthly_budget[i])]

\* (df['actual_spending'] / df['monthly_budget'] * 100).round(2)
spending_rate_column(d) ==
    [i \in 1..NRows(d) |-> PctRounded(d.actual_spending[i], d.monthly_budget[i])]

\* the categories laid against the rows in reverse
variance_category_column_reversed(d, thresholds) ==
    [i \in 1..NRows(d) |->
        categorize_variance(d.variance_pct[NRows(d) + 1 - i], thresholds)]

\* df['variance_pct'].apply(categorize_variance)
variance_category_column(d, thresholds) ==
    [i \in 1..NRows(d) |-> categorize_variance(d.variance_pct[i], thresholds)]

\* the flag raised for overruns only
needs_attention_column_overrun_only(d) ==
    [i \in 1..NRows(d) |-> d.variance_category[i] \in {"Significantly Overrun"}]

\* df['variance_category'].isin([...])
needs_attention_column(d) ==
    [i \in 1..NRows(d) |->
        d.variance_category[i]
            \in {"Significantly Overrun", "Significantly Underspending"}]

\* the variance written over the budget column it was computed from
calculate_variances_overwriting(d, thresholds) ==
    LET d0 == SetColumn(d, "budget_variance", budget_variance_column(d))
        d1 == SetColumn(d0, "monthly_budget", d0.budget_variance)
        d2 == SetColumn(d1, "variance_pct", variance_pct_column(d0))
        d3 == SetColumn(d2, "spending_rate", spending_rate_column(d0))
        d4 == SetColumn(d3, "variance_category",
                        variance_category_column(d3, thresholds))
        d5 == SetColumn(d4, "needs_attention", needs_attention_column(d4))
    IN  d5

calculate_variances(d, thresholds) ==
    LET d1 == SetColumn(d, "budget_variance", budget_variance_column(d))
        d2 == SetColumn(d1, "variance_pct", variance_pct_column(d1))
        d3 == SetColumn(d2, "spending_rate", spending_rate_column(d2))
        d4 == SetColumn(d3, "variance_category",
                        variance_category_column(d3, thresholds))
        d5 == SetColumn(d4, "needs_attention", needs_attention_column(d4))
    IN  d5

-----------------------------------------------------------------------------
(* Inputs *)

\* budgets: none, the round figure of the documented scenarios, and the
\* least and the greatest sample budget
Budgets ==
    {0, 10000, base_budgets.SUSTAINABILITY, base_budgets.AIR_QUALITY}

\* actual spending minus budget
Deltas ==
    {-3000, -1300, -1000, -500, 0, 1, 500, 600, 1200, 1500, 2500}

Rows ==
    { r \in { [monthly_budget |-> b, actual_spending |-> b + dl] :
                b \in Budgets, dl \in Deltas } : r.actual_spending >= 0 }

SeqsUpTo(S, n) == UNION { [1..k -> S] : k \in 0..n }

-----------------------------------------------------------------------------
(* The analyzer and its caller *)

NoFloat == [kind |-> "none", val |-> 0]

NoFrame == DataFrame(<<>>)

Init ==
    /\ variance_thresholds = DefaultThresholds
    /\ ctor_args = NoArgs
    /\ df = NoFrame
    /\ df_before = NoFrame
    /\ ret = NoFrame
    /\ error = "none"
    /\ op = "construct"
    /\ x = NoFloat
    /\ category = "none"
    /\ prev_x = NoFloat
    /\ prev_category = "none"

\* BudgetVarianceAnalyzer(...), before any data is handed over: __init__
\* takes no argument besides self, so a call with one raises TypeError and
\* creates no object; without one the thresholds are the fixed dictionary
Construct(args) ==
    /\ op = "construct"
    /\ ctor_args' = args
    /\ IF args = NoArgs
       THEN /\ variance_thresholds' = DefaultThresholds
            /\ error' = "none"
       ELSE /\ variance_thresholds' = variance_thresholds
            /\ error' = "TypeError"
    /\ op' = "construct"
    /\ UNCHANGED <<df, df_before, ret, x, category, prev_x, prev_category>>

\* with an analyzer constructed, the caller builds the DataFrame of budget
\* and spending rows it is going to analyze
LoadData ==
    /\ op = "construct"
    /\ error = "none"
    /\ \E data \in SeqsUpTo(Rows, MaxRows) : df' = DataFrame(data)
    /\ df_before' = NoFrame
    /\ ret' = NoFrame
    /\ op' = "load"
    /\ UNCHANGED <<variance_thresholds, ctor_args, error, x, category,
                   prev_x, prev_category>>

\* analyzer.calculate_variances(df): the columns are assigned on the
\* caller's DataFrame, which is also the value returned; nothing is raised
CalculateVariances ==
    /\ op \in {"load", "calculate"}
    /\ df_before' = df
    /\ df' = calculate_variances(df, variance_thresholds)
    /\ ret' = df'
    /\ error' = "none"
    /\ op' = "calculate"
    /\ UNCHANGED <<variance_thresholds, ctor_args, x, category, prev_x,
                   prev_category>>

Next ==
    \/ \E args \in {NoArgs} \cup {<<t>> : t \in ThresholdArgs} : Construct(args)
    \/ LoadData
    \/ CalculateVariances

Spec == Init /\ [][Next]_vars

-----------------------------------------------------------------------------
(* categorize_variance as a pure function of its argument and the thresholds *)

ThresholdRange == -MaxThreshold..MaxThreshold

OrderedThresholds ==
    { t \in [significantly_over : ThresholdRange,
             significantly_under : ThresholdRange,
             slightly_over : ThresholdRange,
             slightly_under : ThresholdRange] : StrictlyOrdered(t) }

\* every half percent from below the least threshold to above the greatest,
\* and the non-finite floats
PctInputs ==
    { Fin(50 * k) : k \in (-2 * (MaxThreshold + 1))..(2 * (MaxThreshold + 1)) }
        \cup {PosInf, NegInf, NaN}

InitClassify ==
    /\ variance_thresholds \in OrderedThresholds
    /\ ctor_args = NoArgs
    /\ df = NoFrame
    /\ df_before = NoFrame
    /\ ret = NoFrame
    /\ error = "none"
    /\ op = "construct"
    /\ x = NoFloat
    /\ category = "none"
    /\ prev_x = NoFloat
    /\ prev_category = "none"

Categorize(v) ==
    /\ prev_x' = x
    /\ prev_category' = category
    /\ x' = v
    /\ category' = categorize_variance(v, variance_thresholds)
    /\ op' = "categorize"
    /\ UNCHANGED <<variance_thresholds, ctor_args, df, df_before, ret, error>>

NextClassify == \E v \in PctInputs : Categorize(v)

SpecClassify == InitClassify /\ [][NextClassify]_vars

-----------------------------------------------------------------------------
(* Properties *)

\* C1: categorize_variance returns the category of the first test that
\* matches, in the order: at or below significantly_over, at or below
\* slightly_over, at or above significantly_under, at or above
\* slightly_under, otherwise within target; so every argument gets exactly
\* one of the five categories.
C1_FirstMatchingTest ==
    op = "categorize" =>
        LET t  == variance_thresholds
            t1 == FloatLe(x, t.significantly_over)
            t2 == FloatLe(x, t.slightly_over)
            t3 == FloatGe(x, t.significantly_under)
            t4 == FloatGe(x, t.slightly_under)
        IN  /\ category \in {"Significantly Overrun", "Slighty Overrun",
                             "Significantly Underspending",
                             "Slightly Underspending", "Within Target"}
            /\ t1 => category = "Significantly Overrun"
            /\ ~t1 /\ t2 => category = "Slighty Overrun"
            /\ ~t1 /\ ~t2 /\ t3 => category = "Significantly Underspending"
            /\ ~t1 /\ ~t2 /\ ~t3 /\ t4 => category = "Slightly Underspending"
            /\ ~t1 /\ ~t2 /\ ~t3 /\ ~t4 => category = "Within Target"

\* an argument that fails the first three tests and passes the fourth
C1_Witness ==
    /\ op = "categorize"
    /\ IsFinite(x)
    /\ category = "Slightly Underspending"

\* C2: calculate_variances raises an explicit error whenever a row has a
\* budget of 0, and never returns an infinite or NaN variance_pct or
\* spending_rate.
C2_ZeroBudgetRaises ==
    op = "calculate" =>
        /\ (\E i \in 1..NRows(df_before) : df_before.monthly_budget[i] = 0)
                => error # "none"
        /\ \A i \in 1..NRows(ret) :
                /\ IsFinite(ret.variance_pct[i])
                /\ IsFinite(ret.spending_rate[i])

\* C3: with the default thresholds a budget of 10000 gives: spent 11200 ->
\* 12.0, significantly overrun, flagged; 10600 -> 6.0, slightly overrun, not
\* flagged; 10000 -> 0.0, within target, not flagged; 8700 -> -13.0,
\* slightly underspending, not flagged; 7000 -> -30.0, significantly
\* underspending, flagged.
C3_DocumentedScenarios ==
    op = "calculate" =>
        \A i \in 1..NRows(ret) :
            LET Gives(actual, pct, cat, flag) ==
                    ret.actual_spending[i] = actual =>
                        /\ ret.variance_pct[i] = Fin(pct)
                        /\ ret.variance_category[i] = cat
                        /\ ret.needs_attention[i] = flag
            IN  ret.monthly_budget[i] = 10000 =>
                    /\ Gives(11200, 1200, "Significantly Overrun", TRUE)
                    /\ Gives(10600, 600, "Slighty Overrun", FALSE)
                    /\ Gives(10000, 0, "Within Target", FALSE)
                    /\ Gives(8700, -1300, "Slightly Underspending", FALSE)
                    /\ Gives(7000, -3000, "Significantly Underspending", TRUE)

\* C4: for a positive budget, variance_pct is negative only when the row is
\* over budget and positive only when it is under budget.
C4_NegativeMeansOverBudget ==
    op = "calculate" =>
        \A i \in 1..NRows(ret) :
            ret.monthly_budget[i] > 0 =>
                /\ ret.variance_pct[i].val < 0
                        => ret.actual_spending[i] > ret.monthly_budget[i]
                /\ ret.variance_pct[i].val > 0
                        => ret.actual_spending[i] < ret.monthly_budget[i]

\* C5 as stated: a construction with thresholds that break the strict order
\* fails with a ConfigurationError, and the analyzer's thresholds are
\* strictly ordered at all times.
C5_ConfigurationError ==
    /\ (/\ op = "construct"
        /\ ctor_args # NoArgs
        /\ ~StrictlyOrdered(ctor_args[1])) => error = "ConfigurationError"
    /\ StrictlyOrdered(variance_thresholds)

\* C5 as amended: the constructor takes no thresholds, a call handing it any
\* fails with a TypeError, and the analyzer's thresholds are at all times
\* the fixed -10, -5, 15, 25, which are strictly ordered.
C5_FixedOrderedThresholds ==
    /\ ctor_args # NoArgs => op = "construct" /\ error = "TypeError"
    /\ variance_thresholds.significantly_over = -10
    /\ variance_thresholds.slightly_over = -5
    /\ variance_thresholds.slightly_under = 15
    /\ variance_thresholds.significantly_under = 25
    /\ StrictlyOrdered(variance_thresholds)

\* a construction was tried with thresholds that break the strict order
C5_Witness ==
    /\ op = "construct"
    /\ ctor_args # NoArgs
    /\ ~StrictlyOrdered(ctor_args[1])
    /\ error = "TypeError"

\* C6: in every returned row needs_attention is true exactly for the
\* categories significantly overrun and significantly underspending, and
\* false for the other three.
C6_NeedsAttentionIffSignificant ==
    op = "calculate" =>
        \A i \in 1..NRows(ret) :
            /\ ret.needs_attention[i] \in BOOLEAN
            /\ ret.needs_attention[i] <=>
                    \/ ret.variance_category[i] = "Significantly Overrun"
                    \/ ret.variance_category[i] = "Significantly Underspending"
            /\ ret.variance_category[i]
                    \in {"Slighty Overrun", "Slightly Underspending",
                         "Within Target"}
                    => ret.needs_attention[i] = FALSE

\* a returned frame with a significantly underspending row that is flagged
\* and a row that is not
C6_Witness ==
    /\ op = "calculate"
    /\ \E i, j \in 1..NRows(ret) :
            /\ ret.variance_category[i] = "Significantly Underspending"
            /\ ret.needs_attention[i]
            /\ ~ret.needs_attention[j]

C8_RoundTripWithinACent ==
    op = "calculate" =>
        \A i \in 1..NRows(ret) :
            LET e == ret.budget_variance[i] * 10000
                        - ret.monthly_budget[i] * ret.variance_pct[i].val
            IN  ret.monthly_budget[i] > 0 => e <= 100 /\ -e <= 100

\* C8 as amended: for a positive budget the rounded variance_pct gives the
\* variance back to within half a unit of its last decimal, taken of the
\* budget: |variance - budget * variance_pct / 100| <= 0.00005 * budget.
C8_RoundTripWithinHalfUnit ==
    op = "calculate" =>
        \A i \in 1..NRows(ret) :
            LET e == ret.budget_variance[i] * 10000
                        - ret.monthly_budget[i] * ret.variance_pct[i].val
            IN  ret.monthly_budget[i] > 0 =>
                    /\ 2 * e <= ret.monthly_budget[i]
                    /\ -2 * e <= ret.monthly_budget[i]

\* a sample budget whose rounded percentage is off by more than a cent
C8_Witness ==
    /\ op = "calculate"
    /\ \E i \in 1..NRows(ret) :
            /\ ret.monthly_budget[i] = base_budgets.AIR_QUALITY
            /\ ret.budget_variance[i] * 10000
                    - ret.monthly_budget[i] * ret.variance_pct[i].val > 100

\* C9: for rows whose budgets are all non-zero the returned frame has one
\* row per input row, and its i-th row is what calculate_variances gives
\* for the i-th input row alone.
C9_OneResultPerRecord ==
    (/\ op = "calculate"
     /\ \A i \in 1..NRows(df_before) : df_before.monthly_budget[i] # 0) =>
        /\ NRows(ret) = NRows(df_before)
        /\ \A c \in DOMAIN ret : Len(ret[c]) = NRows(df_before)
        /\ \A i \in 1..NRows(df_before) :
                LET record == [monthly_budget  |-> df_before.monthly_budget[i],
                               actual_spending |-> df_before.actual_spending[i]]
                    alone  == calculate_variances(DataFrame(<<record>>),
                                                  variance_thresholds)
                IN  Row(ret, i) = Row(alone, 1)

\* two input rows with non-zero budgets whose results differ in category
C9_Witness ==
    /\ op = "calculate"
    /\ NRows(df_before) = 2
    /\ \A i \in 1..2 : df_before.monthly_budget[i] # 0
    /\ ret.variance_category[1] # ret.variance_category[2]

\* C10 as stated: a call has no effect besides its returned value: the
\* records of the DataFrame passed in and the thresholds are as they were
\* before the call.
C10_NoSideEffect ==
    op = "calculate" /\ NRows(df_before) > 0 =>
        /\ df = df_before
        /\ variance_thresholds = DefaultThresholds

\* C10 as amended: a call leaves the budget and spending columns of the
\* DataFrame passed in and the thresholds as they were, and a second call on
\* the result changes nothing; but the call adds its five columns to the
\* caller's DataFrame, which is the very value it returns.
C10_InputColumnsPreserved ==
    op = "calculate" =>
        /\ df.monthly_budget = df_before.monthly_budget
        /\ df.actual_spending = df_before.actual_spending
        /\ variance_thresholds.significantly_over = -10
        /\ variance_thresholds.slightly_over = -5
        /\ variance_thresholds.slightly_under = 15
        /\ variance_thresholds.significantly_under = 25
        /\ ret = df
        /\ DOMAIN df = DOMAIN df_before
                \cup {"budget_variance", "variance_pct", "spending_rate",
                      "variance_category", "needs_attention"}
        /\ calculate_variances(df, variance_thresholds) = df

\* a first call on a frame with rows: the caller's frame has changed
C10_Witness ==
    /\ op = "calculate"
    /\ NRows(df) > 0
    /\ df # df_before

====
